---- MODULE Spec2Model ----
(***************************************************************************)
(* Batched migration of secure-memory (SMA) pages, mm/migrate_sma.c:       *)
(* migrate_sma_pages() unmaps every page of a batch, asks the secure       *)
(* monitor (S-visor) to remap the batch with one smc, then moves the       *)
(* unmapped pages onto freshly supplied destination pages.                 *)
(*                                                                         *)
(* A page is identified by its PFN.  The three lists are sequences; a      *)
(* pass of list_for_each_entry_safe is the sequence `cursor` of the pages  *)
(* still to visit.  What the kernel primitives report for a page           *)
(* (trylock_page, PageWriteback, page->mapping, page_mapped, try_to_unmap, *)
(* get_new_page, move_to_new_page ...) is drawn afresh at every attempt.   *)
(***************************************************************************)
EXTENDS Integers, Sequences, FiniteSets, TLC

\* Bounds of the model.
MaxPages == 2
MaxBatches == 2

\* Return codes.
MIGRATEPAGE_SUCCESS == 0
EAGAIN == 11
ENOMEM == 12
EBUSY == 16

\* for (pass = 0; pass < 10 && retry; pass++)
NR_PASSES == 10
\* uint64_t migrate_ipns[2048]
NR_IPNS == 2048
Pages == 1..MaxPages
\* dst_cache->base_pfn: the destination cache lies above the source pages.
DstBasePfn == MaxPages + 1
\* The secure VM that owns the pages of a batch.
SecVmIds == {1}
\* Entries of migrate_ipns the model keeps: a batch records at most one
\* address per page, so the entries from MaxPages on stay zero.
IpnIndex == 0..(MaxPages - 1)

Modes == {"MIGRATE_ASYNC", "MIGRATE_SYNC"}
\* current->flags & PF_SWAPWRITE at entry: the caller runs without it.
SwapwriteAtEntry == {FALSE}
NoPage == [is_sec_mem |-> FALSE, locked |-> FALSE, state |-> "none"]

\* *from* is sorted by PFN: the non-empty ascending sequences of pages.
Batches ==
  {s \in UNION {[1..n -> Pages] : n \in 1..MaxPages} :
     \A i \in 1..(Len(s) - 1) : s[i] < s[i + 1]}

Range(s) == {s[i] : i \in 1..Len(s)}
\* A list_del that leaves the page on the list it came from.
list_del_keep(s, p) == s

\* list_del(&page->lru)
list_del(s, p) == SelectSeq(s, LAMBDA x : x # p)
\* list_add(&page->lru, head): insertion right after the head
list_add(s, p) == <<p>> \o s

VARIABLES
  pc,                 \* position of migrate_sma_pages
  batch_no,           \* number of invocations so far
  batch,              \* the list *from* as passed by the caller
  from,               \* pending list
  unmapped_head,      \* unmapped list
  moved_head,         \* moved list
  cursor,             \* pages still to visit in the current pass
  pass, retry, rc,    \* locals of the running phase / of the orchestrator
  unmap_rc,           \* {what unmap_sma_pages returned}, {} before it has
  mode, pf_memalloc,  \* mode argument, current->flags & PF_MEMALLOC
  pf_swapwrite, swapwrite, \* current->flags & PF_SWAPWRITE, saved copy
  is_sec_mem,         \* page->is_sec_mem of the source pages
  locked,             \* page lock held by this protocol
  anon_vma_refs,      \* anon_vma references held by this protocol
  attempts,           \* per page: attempts in the running phase
  get_new_page_calls, \* per page: calls of get_new_page in this invocation
  newpage,            \* per page: the destination it was moved onto
  last_move,          \* what the latest move_sma_page did with its newpage
  nomem,              \* pages whose latest move attempt got no newpage
  is_migrating, migrate_sec_vm_id, nr_migrate_pages, migrate_ipns,
  smc_req,            \* the per-cpu request region
  irqs_disabled,      \* local interrupts are off
  smc_calls           \* smc instructions issued in this invocation

vars == <<pc, batch_no, batch, from, unmapped_head, moved_head, cursor,
          pass, retry, rc, unmap_rc, mode, pf_memalloc, pf_swapwrite,
          swapwrite, is_sec_mem, locked, anon_vma_refs, attempts,
          get_new_page_calls, newpage, last_move, nomem, is_migrating,
          migrate_sec_vm_id,
          nr_migrate_pages, migrate_ipns, smc_req, irqs_disabled, smc_calls>>

lists == <<from, unmapped_head, moved_head>>
window == <<is_migrating, migrate_sec_vm_id, nr_migrate_pages, migrate_ipns>>
args == <<batch_no, batch, mode, pf_memalloc, swapwrite, is_sec_mem>>

(***************************************************************************)
(* __unmap_sma_page                                                        *)
(***************************************************************************)
\* What the primitives report in one attempt.  PageAnon tests page->mapping,
\* so an anonymous page has one; a field the code does not read on the
\* path the others select is kept at one value.
UnmapObs ==
  {ob \in [trylock : BOOLEAN, writeback : BOOLEAN, is_lru : BOOLEAN,
           anon : BOOLEAN, mapping : BOOLEAN, mapped : BOOLEAN,
           try_to_unmap : BOOLEAN] :
     /\ ob.anon => ob.mapping
     /\ ob.try_to_unmap => ob.mapping /\ ob.mapped
     /\ ob.writeback => ob.is_lru /\ ~ob.mapping /\ ~ob.mapped
     /\ ~ob.is_lru => ~ob.mapped}

\* The result of one call: rc, whether the page is locked by the protocol
\* at return, BUG() hit, lock_page() never returns, the mapping that
\* try_to_unmap removed, anon_vma references still held at return.
UnmapResult(r, l, bug, blocked, unmapped, refs) ==
  [rc |-> r, locked |-> l, bug |-> bug, blocked |-> blocked,
   unmapped |-> unmapped, anon_vma |-> refs]

\* The anon_vma reference kept when try_to_unmap fails.
UnmapLocked_NoPutOnFail(ob) ==
  LET got == IF ob.anon THEN 1 ELSE 0
      put == IF got # 0 THEN 1 ELSE 0
  IN
  IF ob.writeback THEN UnmapResult(-EAGAIN, TRUE, TRUE, FALSE, FALSE, 0)
  ELSE IF ~ob.is_lru THEN UnmapResult(-EAGAIN, TRUE, TRUE, FALSE, FALSE, got)
  ELSE IF ~ob.mapping THEN
    IF ~ob.mapped
    THEN UnmapResult(MIGRATEPAGE_SUCCESS, TRUE, FALSE, FALSE, FALSE, got - put)
    ELSE UnmapResult(-EAGAIN, TRUE, FALSE, FALSE, FALSE, got - put)
  ELSE IF ob.mapped THEN
    IF ob.try_to_unmap
    THEN UnmapResult(MIGRATEPAGE_SUCCESS, TRUE, FALSE, FALSE, TRUE, got - put)
    ELSE UnmapResult(-EAGAIN, FALSE, FALSE, FALSE, FALSE, got)
  ELSE UnmapResult(-EAGAIN, TRUE, FALSE, FALSE, FALSE, got - put)

\* Lines 37-93: the page lock is held.  got: page_get_anon_vma took a
\* reference (line 58); put: put_anon_vma dropped it (lines 89-90).
UnmapLocked(ob) ==
  LET got == IF ob.anon THEN 1 ELSE 0
      put == IF got # 0 THEN 1 ELSE 0
  IN
  IF ob.writeback THEN UnmapResult(-EAGAIN, TRUE, TRUE, FALSE, FALSE, 0)
  ELSE IF ~ob.is_lru THEN UnmapResult(-EAGAIN, TRUE, TRUE, FALSE, FALSE, got)
  ELSE IF ~ob.mapping THEN
    IF ~ob.mapped
    THEN UnmapResult(MIGRATEPAGE_SUCCESS, TRUE, FALSE, FALSE, FALSE, got - put)
    ELSE UnmapResult(-EAGAIN, TRUE, FALSE, FALSE, FALSE, got - put)
  ELSE IF ob.mapped THEN
    IF ob.try_to_unmap
    THEN UnmapResult(MIGRATEPAGE_SUCCESS, TRUE, FALSE, FALSE, TRUE, got - put)
    ELSE UnmapResult(-EAGAIN, FALSE, FALSE, FALSE, FALSE, got - put)
  ELSE UnmapResult(-EAGAIN, TRUE, FALSE, FALSE, FALSE, got - put)

\* The is_sec_mem check made only after the page lock has been taken.
__unmap_sma_page_LateCheck(sec, held, force, md, memalloc, ob) ==
  IF ~held /\ ob.trylock
  THEN IF ~sec THEN UnmapResult(-EAGAIN, TRUE, TRUE, FALSE, FALSE, 0)
       ELSE UnmapLocked(ob)
  ELSE IF ~force \/ md = "MIGRATE_ASYNC"
    THEN UnmapResult(-EAGAIN, held, FALSE, FALSE, FALSE, 0)
  ELSE IF memalloc THEN UnmapResult(-EAGAIN, held, FALSE, FALSE, FALSE, 0)
  ELSE IF held THEN UnmapResult(-EAGAIN, held, FALSE, TRUE, FALSE, 0)
  ELSE IF ~sec THEN UnmapResult(-EAGAIN, TRUE, TRUE, FALSE, FALSE, 0)
  ELSE UnmapLocked(ob)

\* sec: page->is_sec_mem; held: the protocol already holds the page lock.
__unmap_sma_page(sec, held, force, md, memalloc, ob) ==
  IF ~sec THEN UnmapResult(-EAGAIN, held, TRUE, FALSE, FALSE, 0)
  ELSE IF ~held /\ ob.trylock THEN UnmapLocked(ob)
  ELSE IF ~force \/ md = "MIGRATE_ASYNC"
    THEN UnmapResult(-EAGAIN, held, FALSE, FALSE, FALSE, 0)
  ELSE IF memalloc THEN UnmapResult(-EAGAIN, held, FALSE, FALSE, FALSE, 0)
  ELSE IF held THEN UnmapResult(-EAGAIN, held, FALSE, TRUE, FALSE, 0)
  ELSE UnmapLocked(ob)

unmap_sma_page(sec, held, force, md, memalloc, ob) ==
  __unmap_sma_page(sec, held, force, md, memalloc, ob)

\* What a call that never holds the page lock observes: trylock_page fails
\* (line 14) and nothing after line 37 is read.
NothingRead ==
  [trylock |-> FALSE, writeback |-> FALSE, is_lru |-> TRUE, anon |-> FALSE,
   mapping |-> FALSE, mapped |-> FALSE, try_to_unmap |-> FALSE]

\* The observations a call on a secure page can make.  trylock_page fails on
\* a page whose lock the protocol still holds; a call that leaves at line 16
\* or 32, or sleeps in lock_page (line 34), reads nothing more of the page.
UnmapReads(sec, held, force, md, memalloc, ob) ==
  IF ~sec THEN TRUE
  ELSE IF held THEN ob = NothingRead
  ELSE IF ob.trylock THEN TRUE
  ELSE IF force /\ md # "MIGRATE_ASYNC" /\ ~memalloc THEN TRUE
  ELSE ob = NothingRead

(***************************************************************************)
(* __move_sma_page, move_sma_page                                          *)
(***************************************************************************)
\* What get_new_page, trylock_page(newpage), page_mapped(page),
\* move_to_new_page and page_get_anon_vma report in one attempt; a field
\* the code does not read on the path the others select is kept at one
\* value.
MoveObs ==
  {ob \in [newpage : {"none", "sec", "nonsec"}, trylock : BOOLEAN,
           mapped : BOOLEAN,
           move_to_new_page : {MIGRATEPAGE_SUCCESS, -EAGAIN, -EBUSY},
           page_count_2 : BOOLEAN, anon : BOOLEAN] :
     /\ ob.newpage = "none" => ob.trylock /\ ~ob.mapped
     /\ ~ob.trylock => ~ob.mapped
     /\ (ob.newpage = "none" \/ ~ob.trylock \/ ob.mapped)
          => ob.move_to_new_page = -EAGAIN
     /\ ~ob.page_count_2 => ob.move_to_new_page = MIGRATEPAGE_SUCCESS
     /\ ob.anon => ob.move_to_new_page = MIGRATEPAGE_SUCCESS}

\* rc, newpage locked at return, source page unlocked, migration ptes
\* re-established onto newpage, page_count(newpage) == 2 after
\* move_to_new_page (line 169, logged only), anon_vma references still held
\* at return.
__move_sma_page(ob) ==
  IF ~ob.trylock
  THEN [rc |-> -EAGAIN, newpage_locked |-> FALSE, page_unlocked |-> FALSE,
        remapped |-> FALSE, page_count_2 |-> TRUE, anon_vma |-> 0]
  ELSE IF ob.mapped
  THEN [rc |-> -EAGAIN, newpage_locked |-> TRUE, page_unlocked |-> FALSE,
        remapped |-> FALSE, page_count_2 |-> TRUE, anon_vma |-> 0]
  ELSE IF ob.move_to_new_page # MIGRATEPAGE_SUCCESS
  THEN [rc |-> ob.move_to_new_page, newpage_locked |-> FALSE,
        page_unlocked |-> FALSE, remapped |-> FALSE,
        page_count_2 |-> ob.page_count_2, anon_vma |-> 0]
  ELSE LET got == IF ob.anon THEN 1 ELSE 0
           put == IF got # 0 THEN 1 ELSE 0
       IN
       [rc |-> MIGRATEPAGE_SUCCESS, newpage_locked |-> FALSE,
        page_unlocked |-> TRUE, remapped |-> TRUE,
        page_count_2 |-> ob.page_count_2, anon_vma |-> got - put]

\* The check of the destination's flag left out.
NonSecureDestination_Unchecked(sec) == FALSE

\* if (!newpage->is_sec_mem) BUG();
NonSecureDestination(sec) == ~sec

\* rc, BUG() hit, get_new_page called, the destination page and what became
\* of it (kept, released through put_new_page/put_page, or neither of the
\* two: leaked), source page unlocked, anon_vma references still held at
\* return.
move_sma_page(ob) ==
  IF ob.newpage = "none"
  THEN [rc |-> -ENOMEM, bug |-> FALSE, supplied |-> 1, newpage |-> NoPage,
        page_unlocked |-> FALSE, remapped |-> FALSE, page_count_2 |-> TRUE,
        anon_vma |-> 0]
  ELSE
    LET m == __move_sma_page(ob)
        sec == ob.newpage = "sec"
        np(st) == [is_sec_mem |-> sec, locked |-> m.newpage_locked,
                   state |-> st]
    IN IF m.rc = MIGRATEPAGE_SUCCESS
       THEN [rc |-> m.rc, bug |-> NonSecureDestination(sec), supplied |-> 1,
             newpage |-> np("kept"), page_unlocked |-> m.page_unlocked,
             remapped |-> m.remapped, page_count_2 |-> m.page_count_2,
             anon_vma |-> m.anon_vma]
       ELSE IF m.rc = -EAGAIN
       THEN [rc |-> m.rc, bug |-> FALSE, supplied |-> 1,
             newpage |-> np("released"), page_unlocked |-> m.page_unlocked,
             remapped |-> m.remapped, page_count_2 |-> m.page_count_2,
             anon_vma |-> m.anon_vma]
       ELSE [rc |-> m.rc, bug |-> FALSE, supplied |-> 1,
             newpage |-> np("leaked"), page_unlocked |-> m.page_unlocked,
             remapped |-> m.remapped, page_count_2 |-> m.page_count_2,
             anon_vma |-> m.anon_vma]

(***************************************************************************)
(* Migration-window state, written while try_to_unmap tears down a stage-2 *)
(* mapping (handle_hva_to_gpa, outside this file).                         *)
(***************************************************************************)
\* The intermediate page number the page is mapped at in its VM; the model
\* keeps of it only that it is not zero.
IpnOf(p) == 1

handle_hva_to_gpa_ipns(ipns, nr, p) ==
  IF nr < NR_IPNS /\ nr \in IpnIndex THEN [ipns EXCEPT ![nr] = IpnOf(p)]
  ELSE ipns

handle_hva_to_gpa_nr(nr) == IF nr < NR_IPNS THEN nr + 1 ELSE nr

\* A destination obtained on the first attempt only and kept for retries.
SupplyCallsOnce(calls, p, r) ==
  [calls EXCEPT ![p] = IF @ = 0 THEN r.supplied ELSE @]

\* What a call of move_sma_page did with its destination: none supplied,
\* kept, released or leaked; left locked; its page_count as expected;
\* mappings re-established onto it.
LastMove(r) ==
  [newpage |-> r.newpage.state, newpage_locked |-> r.newpage.locked,
   page_count_2 |-> r.page_count_2, remapped |-> r.remapped]

NoMove ==
  [newpage |-> "none", newpage_locked |-> FALSE, page_count_2 |-> TRUE,
   remapped |-> FALSE]

\* newpage = get_new_page(page, private), counted per source page.
SupplyCalls(calls, p, r) == [calls EXCEPT ![p] = @ + r.supplied]

\* The page count taken from the batch instead of the fixed capacity.
REMAP_NR_PAGES_Batch == Len(batch)

\* smc_req->remap_ipa.nr_pages = (8 << (20 - 12))
REMAP_NR_PAGES == 8 * (2 ^ (20 - 12))

(***************************************************************************)
(* The retry loops                                                         *)
(***************************************************************************)
\* The loop does not stop after a pass without -EAGAIN.
PassLoop_NoEarlyStop(ps, rt) == ps < NR_PASSES

\* One pass too many.
PassLoop_OffByOne(ps, rt) == ps <= NR_PASSES /\ rt # 0

\* for (...; pass < 10 && retry; ...)
PassLoop(ps, rt) == ps < NR_PASSES /\ rt # 0

\* if (rc != 0) goto out;
PhaseFailed(r) == r # 0

Init ==
  /\ pc = "idle"
  /\ batch_no = 0
  /\ batch = <<>>
  /\ from = <<>>
  /\ unmapped_head = <<>>
  /\ moved_head = <<>>
  /\ cursor = <<>>
  /\ pass = 0
  /\ retry = 0
  /\ rc = 0
  /\ unmap_rc = {}
  /\ mode = "MIGRATE_ASYNC"
  /\ pf_memalloc = FALSE
  /\ pf_swapwrite = FALSE
  /\ swapwrite = FALSE
  /\ is_sec_mem = [p \in Pages |-> TRUE]
  /\ locked = [p \in Pages |-> FALSE]
  /\ anon_vma_refs = 0
  /\ attempts = [p \in Pages |-> 0]
  /\ get_new_page_calls = [p \in Pages |-> 0]
  /\ newpage = [p \in Pages |-> NoPage]
  /\ last_move = NoMove
  /\ nomem = {}
  /\ is_migrating = FALSE
  /\ migrate_sec_vm_id = 0
  /\ nr_migrate_pages = 0
  /\ migrate_ipns = [i \in IpnIndex |-> 0]
  /\ smc_req = [sec_vm_id |-> 0, req_type |-> "none", src_start_pfn |-> 0,
                dst_start_pfn |-> 0, nr_pages |-> 0,
                ipn_list |-> [i \in IpnIndex |-> 0]]
  /\ irqs_disabled = FALSE
  /\ smc_calls = 0

\* migrate_sma_pages, lines 306-329: entry, up to the first pass of
\* unmap_sma_pages (its locals initialised, lines 105-111).  The pages of a
\* batch are handed in unlocked by the protocol; the per-page counters
\* start at zero for the call.
EnterWith(Flags) ==
  /\ \E b \in Batches, sec \in Flags, md \in Modes,
        ma \in BOOLEAN, sw \in SwapwriteAtEntry :
       /\ \A p \in Pages \ Range(b) : sec[p]
       /\ batch' = b
       /\ from' = b
       /\ is_sec_mem' = sec
       /\ mode' = md
       /\ pf_memalloc' = ma
       /\ swapwrite' = sw
  /\ batch_no' = batch_no + 1
  /\ unmapped_head' = <<>>
  /\ moved_head' = <<>>
  /\ pf_swapwrite' = TRUE
  /\ migrate_sec_vm_id' = 0
  /\ nr_migrate_pages' = 0
  /\ is_migrating' = TRUE
  /\ retry' = 1
  /\ pass' = 0
  /\ rc' = MIGRATEPAGE_SUCCESS
  /\ unmap_rc' = {}
  /\ cursor' = <<>>
  /\ locked' = [p \in Pages |-> FALSE]
  /\ attempts' = [p \in Pages |-> 0]
  /\ get_new_page_calls' = [p \in Pages |-> 0]
  /\ newpage' = [p \in Pages |-> NoPage]
  /\ last_move' = NoMove
  /\ nomem' = {}
  /\ smc_calls' = 0
  /\ pc' = "unmap"
  /\ UNCHANGED <<anon_vma_refs, migrate_ipns, smc_req, irqs_disabled>>

\* is_sec_mem of the pages handed in: any flags.
Enter == EnterWith([Pages -> BOOLEAN])

\* The first call of migrate_sma_pages.
Invoke ==
  /\ pc = "idle"
  /\ Enter

\* A later call, for the next batch, after the previous call has returned.
Reinvoke ==
  /\ pc = "returned"
  /\ batch_no < MaxBatches
  /\ Enter

\* unmap_sma_pages, line 113-116: the loop condition, then retry = 0 and the
\* walk over *from* starts; or line 144, return rc.
UnmapPassHead ==
  /\ pc = "unmap"
  /\ IF PassLoop(pass, retry)
     THEN /\ retry' = 0
          /\ cursor' = from
          /\ pc' = IF from = <<>> THEN "unmap" ELSE "unmap_pass"
          /\ pass' = IF from = <<>> THEN pass + 1 ELSE pass
          /\ UNCHANGED unmap_rc
     ELSE /\ unmap_rc' = {rc}
          /\ pc' = "unmap_ret"
          /\ UNCHANGED <<retry, cursor, pass>>
  /\ UNCHANGED <<args, lists, rc, pf_swapwrite, locked, anon_vma_refs,
                 attempts, get_new_page_calls, newpage, last_move, nomem, window, smc_req,
                 irqs_disabled, smc_calls>>

\* unmap_sma_pages, lines 117-141: one page of the pass.
UnmapPageWith(Obs) ==
  /\ pc = "unmap_pass"
  /\ cursor # <<>>
  /\ LET p == Head(cursor) IN
     \E ob \in Obs :
       LET r == unmap_sma_page(is_sec_mem[p], locked[p], pass > 2, mode,
                               pf_memalloc, ob)
           ok == r.rc = MIGRATEPAGE_SUCCESS
           last == Tail(cursor) = <<>>
       IN
       /\ UnmapReads(is_sec_mem[p], locked[p], pass > 2, mode, pf_memalloc,
                     ob)
       /\ attempts' = [attempts EXCEPT ![p] = @ + 1]
       /\ locked' = [locked EXCEPT ![p] = r.locked]
       /\ anon_vma_refs' = anon_vma_refs + r.anon_vma
       /\ IF r.bug \/ r.blocked
          THEN /\ pc' = IF r.bug THEN "BUG" ELSE "blocked"
               /\ UNCHANGED <<lists, cursor, pass, retry, rc, window>>
          ELSE /\ rc' = r.rc
               /\ retry' = IF r.rc = -EAGAIN THEN retry + 1 ELSE retry
               /\ from' = IF ok THEN list_del(from, p) ELSE from
               /\ unmapped_head' =
                    IF ok THEN list_add(unmapped_head, p) ELSE unmapped_head
               /\ moved_head' = moved_head
               /\ IF r.unmapped /\ is_migrating
                  THEN /\ migrate_ipns' =
                            handle_hva_to_gpa_ipns(migrate_ipns,
                                                   nr_migrate_pages, p)
                       /\ nr_migrate_pages' =
                            handle_hva_to_gpa_nr(nr_migrate_pages)
                       /\ migrate_sec_vm_id' \in SecVmIds
                  ELSE UNCHANGED <<migrate_ipns, nr_migrate_pages,
                                   migrate_sec_vm_id>>
               /\ is_migrating' = is_migrating
               /\ cursor' = Tail(cursor)
               /\ pass' = IF last THEN pass + 1 ELSE pass
               /\ pc' = IF last THEN "unmap" ELSE "unmap_pass"
  /\ UNCHANGED <<args, unmap_rc, pf_swapwrite, get_new_page_calls, newpage, last_move, nomem,
                 smc_req, irqs_disabled, smc_calls>>

UnmapPage == UnmapPageWith(UnmapObs)

\* migrate_sma_pages, lines 330-335.
UnmapReturn ==
  /\ pc = "unmap_ret"
  /\ IF PhaseFailed(rc)
     THEN /\ pc' = "out"
          /\ UNCHANGED is_migrating
     ELSE /\ is_migrating' = FALSE
          /\ pc' = "smc_req"
  /\ UNCHANGED <<args, lists, cursor, pass, retry, rc, unmap_rc,
                 pf_swapwrite, locked, anon_vma_refs, attempts,
                 get_new_page_calls, newpage, last_move, nomem, migrate_sec_vm_id,
                 nr_migrate_pages, migrate_ipns, smc_req, irqs_disabled,
                 smc_calls>>

\* migrate_sma_pages, lines 337-343.
FillSmcReq ==
  /\ pc = "smc_req"
  /\ smc_req' = [sec_vm_id |-> migrate_sec_vm_id,
                 req_type |-> "REQ_KVM_TO_S_VISOR_REMAP_IPA",
                 src_start_pfn |-> Head(batch),
                 dst_start_pfn |-> DstBasePfn,
                 nr_pages |-> REMAP_NR_PAGES,
                 ipn_list |-> migrate_ipns]
  /\ pc' = "irq_disable"
  /\ UNCHANGED <<args, lists, cursor, pass, retry, rc, unmap_rc,
                 pf_swapwrite, locked, anon_vma_refs, attempts,
                 get_new_page_calls, newpage, last_move, nomem, window, irqs_disabled,
                 smc_calls>>

\* local_irq_disable(), line 344.
local_irq_disable ==
  /\ pc = "irq_disable"
  /\ irqs_disabled' = TRUE
  /\ pc' = "smc"
  /\ UNCHANGED <<args, lists, cursor, pass, retry, rc, unmap_rc,
                 pf_swapwrite, locked, anon_vma_refs, attempts,
                 get_new_page_calls, newpage, last_move, nomem, window, smc_req, smc_calls>>

\* asm volatile("smc #0x18"), line 345.
Smc ==
  /\ pc = "smc"
  /\ smc_calls' = smc_calls + 1
  /\ pc' = "irq_enable"
  /\ UNCHANGED <<args, lists, cursor, pass, retry, rc, unmap_rc,
                 pf_swapwrite, locked, anon_vma_refs, attempts,
                 get_new_page_calls, newpage, last_move, nomem, window, smc_req,
                 irqs_disabled>>

\* Lines 346-350: local_irq_enable(), mode = MIGRATE_SYNC_NO_COPY, and the
\* call of move_sma_pages (its locals initialised, lines 252-258).
local_irq_enable ==
  /\ pc = "irq_enable"
  /\ irqs_disabled' = FALSE
  /\ mode' = "MIGRATE_SYNC_NO_COPY"
  /\ retry' = 1
  /\ pass' = 0
  /\ rc' = MIGRATEPAGE_SUCCESS
  /\ attempts' = [p \in Pages |-> 0]
  /\ pc' = "move"
  /\ UNCHANGED <<batch_no, batch, pf_memalloc, swapwrite, is_sec_mem, lists,
                 cursor, unmap_rc, pf_swapwrite, locked, anon_vma_refs,
                 get_new_page_calls, newpage, last_move, nomem, window, smc_req, smc_calls>>

\* move_sma_pages, lines 260-263: the loop condition, then retry = 0 and
\* the walk over *unmapped_head* starts; or line 287, return rc.
MovePassHead ==
  /\ pc = "move"
  /\ IF PassLoop(pass, retry)
     THEN /\ retry' = 0
          /\ cursor' = unmapped_head
          /\ pc' = IF unmapped_head = <<>> THEN "move" ELSE "move_pass"
          /\ pass' = IF unmapped_head = <<>> THEN pass + 1 ELSE pass
     ELSE /\ pc' = "move_ret"
          /\ UNCHANGED <<retry, cursor, pass>>
  /\ UNCHANGED <<args, lists, rc, unmap_rc, pf_swapwrite, locked,
                 anon_vma_refs, attempts, get_new_page_calls, newpage, last_move, nomem,
                 window, smc_req, irqs_disabled, smc_calls>>

\* move_sma_pages, lines 264-284: one page of the pass.
MovePageWith(Obs) ==
  /\ pc = "move_pass"
  /\ cursor # <<>>
  /\ LET p == Head(cursor) IN
     \E ob \in Obs :
       LET r == move_sma_page(ob)
           ok == r.rc = MIGRATEPAGE_SUCCESS
           last == Tail(cursor) = <<>>
       IN
       /\ attempts' = [attempts EXCEPT ![p] = @ + 1]
       /\ get_new_page_calls' = SupplyCalls(get_new_page_calls, p, r)
       /\ newpage' = [newpage EXCEPT ![p] = IF ok THEN r.newpage ELSE @]
       /\ last_move' = LastMove(r)
       /\ nomem' = IF r.rc = -ENOMEM THEN nomem \cup {p} ELSE nomem \ {p}
       /\ locked' = [locked EXCEPT ![p] = IF r.page_unlocked THEN FALSE ELSE @]
       /\ anon_vma_refs' = anon_vma_refs + r.anon_vma
       /\ IF r.bug
          THEN /\ pc' = "BUG"
               /\ UNCHANGED <<lists, cursor, pass, retry, rc>>
          ELSE /\ rc' = r.rc
               /\ retry' = IF r.rc = -EAGAIN THEN retry + 1 ELSE retry
               /\ unmapped_head' =
                    IF ok THEN list_del(unmapped_head, p) ELSE unmapped_head
               /\ moved_head' =
                    IF ok THEN list_add(moved_head, p) ELSE moved_head
               /\ from' = from
               /\ cursor' = Tail(cursor)
               /\ pass' = IF last THEN pass + 1 ELSE pass
               /\ pc' = IF last THEN "move" ELSE "move_pass"
  /\ UNCHANGED <<args, unmap_rc, pf_swapwrite, window, smc_req,
                 irqs_disabled, smc_calls>>

MovePage == MovePageWith(MoveObs)

\* migrate_sma_pages, lines 352-356: both branches reach out.
MoveReturn ==
  /\ pc = "move_ret"
  /\ pc' = "out"
  /\ UNCHANGED <<args, lists, cursor, pass, retry, rc, unmap_rc,
                 pf_swapwrite, locked, anon_vma_refs, attempts,
                 get_new_page_calls, newpage, last_move, nomem, window, smc_req,
                 irqs_disabled, smc_calls>>

\* migrate_sma_pages, lines 358-362.
Out ==
  /\ pc = "out"
  /\ pf_swapwrite' = IF ~swapwrite THEN FALSE ELSE pf_swapwrite
  /\ pc' = "returned"
  /\ UNCHANGED <<args, lists, cursor, pass, retry, rc, unmap_rc, locked,
                 anon_vma_refs, attempts, get_new_page_calls, newpage, last_move, nomem,
                 window, smc_req, irqs_disabled, smc_calls>>

Next ==
  \/ Invoke
  \/ UnmapPassHead
  \/ UnmapPage
  \/ UnmapReturn
  \/ FillSmcReq
  \/ local_irq_disable
  \/ Smc
  \/ local_irq_enable
  \/ MovePassHead
  \/ MovePage
  \/ MoveReturn
  \/ Out

\* One call of migrate_sma_pages.
Spec == Init /\ [][Next]_vars

\* A sequence of calls, one batch after the other.
NextBatches == Next \/ Reinvoke

SpecBatches == Init /\ [][NextBatches]_vars

(***************************************************************************)
(* One call in which nothing fails: every page carries is_sec_mem, every   *)
(* trylock_page succeeds, every page is either free of mappings or fully   *)
(* unmapped by try_to_unmap, get_new_page returns a secure page each time  *)
(* and move_to_new_page succeeds.  The code runs on the calling thread     *)
(* without waiting for anything, so it keeps taking steps.                 *)
(***************************************************************************)
CleanUnmapObs ==
  {ob \in UnmapObs :
     /\ ob.trylock /\ ~ob.writeback /\ ob.is_lru
     /\ \/ ~ob.mapping /\ ~ob.mapped
        \/ ob.mapping /\ ob.mapped /\ ob.try_to_unmap}

CleanMoveObs ==
  {ob \in MoveObs :
     /\ ob.newpage = "sec" /\ ob.trylock /\ ~ob.mapped
     /\ ob.move_to_new_page = MIGRATEPAGE_SUCCESS}

InvokeClean ==
  /\ pc = "idle"
  /\ EnterWith({[p \in Pages |-> TRUE]})

UnmapPageClean == UnmapPageWith(CleanUnmapObs)

MovePageClean == MovePageWith(CleanMoveObs)

NextClean ==
  \/ InvokeClean
  \/ UnmapPassHead
  \/ UnmapPageClean
  \/ UnmapReturn
  \/ FillSmcReq
  \/ local_irq_disable
  \/ Smc
  \/ local_irq_enable
  \/ MovePassHead
  \/ MovePageClean
  \/ MoveReturn
  \/ Out

SpecClean == Init /\ [][NextClean]_vars /\ WF_vars(NextClean)

(***************************************************************************)
(* Properties                                                              *)
(***************************************************************************)
InUnmapPhase == pc \in {"unmap", "unmap_pass"}
InMovePhase == pc \in {"move", "move_pass", "move_ret"}
\* The request region holds the descriptor of the current batch.
DescriptorFilled == pc \in {"irq_disable", "smc", "irq_enable"}

NoDup(s) == Cardinality(Range(s)) = Len(s)

ListsPartition ==
  /\ NoDup(from) /\ NoDup(unmapped_head) /\ NoDup(moved_head)
  /\ Range(from) \cap Range(unmapped_head) = {}
  /\ Range(from) \cap Range(moved_head) = {}
  /\ Range(unmapped_head) \cap Range(moved_head) = {}
  /\ Range(from) \cup Range(unmapped_head) \cup Range(moved_head)
       = Range(batch)

\* C1: the smc is issued only with the pending list empty; a batch with a
\* page still pending after the last pass of unmap_sma_pages is aborted
\* without a monitor call.
C1_SmcOnlyWhenDrained ==
  (pc = "smc" \/ smc_calls > 0) => from = <<>>

\* C2: migrate_sma_pages returns zero exactly when every page of the batch
\* ended on the moved list: a return of 0 implies an empty unmapped list, a
\* non-empty unmapped list after the move phase implies a non-zero return.
C2_ZeroIffAllMoved ==
  pc = "returned" =>
    /\ rc = 0 => unmapped_head = <<>>
    /\ (smc_calls > 0 /\ unmapped_head # <<>>) => rc # 0
    /\ (rc = 0) <=> (Range(moved_head) = Range(batch))

\* C3: when migrate_sma_pages returns, every page of the batch is either on
\* the moved list or back on the caller's list, never only on the internal
\* unmapped list, and never both moved and residual.
C3_MovedOrReturned ==
  pc = "returned" =>
    /\ unmapped_head = <<>>
    /\ Range(from) \cup Range(moved_head) = Range(batch)
    /\ Range(from) \cap Range(moved_head) = {}

\* C4: is_migrating is true only while unmap_sma_pages runs; it is false at
\* the monitor call and after migrate_sma_pages has returned on any path.
C4_FlagOnlyDuringUnmap ==
  pc \in {"idle", "smc_req", "irq_disable", "smc", "irq_enable", "move",
          "move_pass", "move_ret", "out", "returned"} => ~is_migrating

\* C5: at every point of a run the lists from, unmapped and moved are
\* pairwise disjoint and cover the batch; membership changes only by an
\* unmap success (one page from pending to unmapped) or a move success (one
\* page from unmapped to moved).
C5_ListsPartitionBatch ==
  [][/\ ListsPartition'
     /\ (lists' # lists /\ pc # "idle") =>
          \/ /\ pc = "unmap_pass"
             /\ rc' = MIGRATEPAGE_SUCCESS
             /\ \E p \in Range(from) :
                  /\ Range(from') = Range(from) \ {p}
                  /\ Range(unmapped_head') = Range(unmapped_head) \cup {p}
                  /\ moved_head' = moved_head
          \/ /\ pc = "move_pass"
             /\ rc' = MIGRATEPAGE_SUCCESS
             /\ \E p \in Range(unmapped_head) :
                  /\ Range(unmapped_head') = Range(unmapped_head) \ {p}
                  /\ Range(moved_head') = Range(moved_head) \cup {p}
                  /\ from' = from]_vars

C5_Witness ==
  /\ unmapped_head # <<>>
  /\ moved_head # <<>>
  /\ pc = "move_pass"

\* C6: each phase makes at most 10 passes, so a page is attempted at most
\* 10 times per phase, and a phase ends after the first pass in which no
\* page returned -EAGAIN.
C6_BoundedPasses ==
  [][/\ pass' <= 10
     /\ \A p \in Pages : attempts'[p] <= 10
     /\ (pc \in {"unmap", "move"} /\ pass > 0 /\ retry = 0)
          => pc' \in {"unmap_ret", "move_ret"}
     /\ (pc \in {"unmap", "move"} /\ pass >= 10)
          => pc' \in {"unmap_ret", "move_ret"}]_vars

C6_Witness ==
  /\ pc = "move_ret"
  /\ pass = 10
  /\ retry > 0
  /\ \E p \in Pages : attempts[p] = 10

\* C7: every page on the moved list is paired with a destination that
\* carries is_sec_mem; a successful move onto a non-secure destination hits
\* BUG() before the source page is put on the moved list.
C7_MovedOntoSecure ==
  /\ \A p \in Range(moved_head) :
       newpage[p].state = "kept" /\ newpage[p].is_sec_mem
  /\ \A p \in Pages :
       (newpage[p].state = "kept" /\ ~newpage[p].is_sec_mem)
         => (pc = "BUG" /\ p \notin Range(moved_head))

C7_Witness ==
  /\ pc = "BUG"
  /\ moved_head # <<>>
  /\ \E p \in Range(unmapped_head) :
       newpage[p].state = "kept" /\ ~newpage[p].is_sec_mem

\* C8 as stated: in the move phase get_new_page is invoked exactly once for
\* each page of the unmapped list, retried pages included.
C8_SupplyOncePerPage ==
  pc = "move_ret" =>
    \A p \in Range(unmapped_head) \cup Range(moved_head) :
      get_new_page_calls[p] = 1

\* C8 amended: get_new_page is invoked exactly once per move attempt, so a
\* page whose attempt is retried is supplied a destination again in each
\* pass, at most 10 times in all; a page never attempted is never supplied.
C8_SupplyOncePerAttempt ==
  /\ (InMovePhase \/ (pc \in {"out", "returned"} /\ smc_calls > 0))
       => \A p \in Pages : get_new_page_calls[p] = attempts[p]
  /\ \A p \in Pages : get_new_page_calls[p] <= 10
  /\ smc_calls = 0 => \A p \in Pages : get_new_page_calls[p] = 0

C8_Witness ==
  /\ pc = "move_ret"
  /\ \E p \in Range(moved_head) : get_new_page_calls[p] = 3

\* C9: the migration-window state is reset at the start of every batch, so
\* the table copied into the descriptor holds only addresses recorded in
\* the current batch: every entry at or above nr_migrate_pages is zero.
C9_TableResetPerBatch ==
  DescriptorFilled =>
    \A i \in IpnIndex : i >= nr_migrate_pages => smc_req.ipn_list[i] = 0

\* C10: the monitor call is issued at most once per invocation, exactly
\* once when unmap_sma_pages returned zero and never otherwise, with local
\* interrupts disabled from just before to just after it, and the
\* descriptor's page count is 2048 whatever the size of the batch.
C10_OneSmcIrqsOff ==
  /\ smc_calls <= 1
  /\ smc_calls = 1 => unmap_rc = {0}
  /\ pc \in {"move", "move_pass", "move_ret", "out", "returned"}
       => (smc_calls = 1 <=> unmap_rc = {0})
  /\ irqs_disabled <=> pc \in {"smc", "irq_enable"}
  /\ (pc = "smc" \/ smc_calls = 1) => smc_req.nr_pages = 2048

C10_Witness ==
  /\ pc = "irq_enable"
  /\ smc_calls = 1
  /\ irqs_disabled
  /\ Len(batch) = 1

\* C11: an attempt of the unmap phase on a page whose is_sec_mem is unset
\* hits BUG() at once: the page lock is not taken, no mapping is torn down
\* (nothing is recorded in the migration window), the page stays on the
\* pending list and the unmapped list is unchanged.
C11_NonSecureRejectedFirst ==
  [][(pc = "unmap_pass" /\ ~is_sec_mem[Head(cursor)]) =>
       /\ pc' = "BUG"
       /\ locked' = locked
       /\ ~locked'[Head(cursor)]
       /\ lists' = lists
       /\ Head(cursor) \in Range(from')
       /\ window' = window
       /\ anon_vma_refs' = anon_vma_refs]_vars

C11_Witness ==
  /\ pc = "BUG"
  /\ smc_calls = 0
  /\ unmapped_head # <<>>
  /\ \E p \in Range(from) :
       ~is_sec_mem[p] /\ attempts[p] = 1 /\ ~locked[p]

\* C12: when every page locks and unmaps in the first pass and every move
\* onto a secure destination succeeds, the call reaches Done: pending and
\* unmapped lists empty, the whole batch on the moved list, one monitor
\* call, one pass in each phase, result 0.
C12_CleanRunReachesDone ==
  /\ [](pc = "unmap_ret" => pass = 1 /\ rc = 0)
  /\ [](pc = "move_ret" => pass = 1)
  /\ <>(/\ pc = "returned"
        /\ from = <<>>
        /\ unmapped_head = <<>>
        /\ Range(moved_head) = Range(batch)
        /\ Len(moved_head) = Len(batch)
        /\ smc_calls = 1
        /\ smc_req.nr_pages = 2048
        /\ rc = 0)

C12_Witness ==
  /\ pc = "returned"
  /\ Len(batch) = MaxPages
  /\ Len(moved_head) = MaxPages
  /\ nr_migrate_pages > 0
  /\ rc = 0

\* C13: after each attempt of __unmap_sma_page the page is locked by the
\* protocol exactly when the attempt succeeded and the page went to the
\* unmapped list; every -EAGAIN outcome leaves the page unlocked and on
\* the pending list.
C13_LockedIffUnmapped ==
  pc \in {"unmap", "unmap_pass", "unmap_ret"} =>
    /\ \A p \in Range(from) : ~locked[p]
    /\ \A p \in Range(unmapped_head) : locked[p]

\* C14: when migrate_sma_pages returns, on any exit path, no source page of
\* the batch is still locked by the protocol.
C14_NoLockAtReturn ==
  pc = "returned" => \A p \in Range(batch) : ~locked[p]

\* C20: the unmap phase never calls the blocking lock_page on a page whose
\* lock the protocol itself still holds, so unmap_sma_pages cannot block
\* on its own lock.
C20_NoSelfDeadlock ==
  pc # "blocked"

\* C15: whenever a move attempt acquired the destination page's lock, the
\* lock is released before the attempt returns, also when the source page
\* is found still mapped; no destination is handed to the release callback
\* or left paired with a moved page while locked.
C15_DestinationUnlocked ==
  /\ ~last_move.newpage_locked
  /\ \A p \in Pages : ~newpage[p].locked

\* C16: every destination obtained from get_new_page is either kept (the
\* move succeeded) or returned exactly once through put_new_page/put_page
\* (the move failed, with -EAGAIN or any other error).
C16_DestinationAccounted ==
  /\ last_move.newpage \in {"none", "kept", "released"}
  /\ (pc = "move_pass" /\ last_move.newpage = "kept")
       => rc = MIGRATEPAGE_SUCCESS

\* C17: a page for which get_new_page returned no destination is not
\* attempted again in the same move phase: neither get_new_page nor the
\* move is invoked for it in a later pass.
C17_NoRetryAfterEnomem ==
  [][(pc = "move_pass" /\ Head(cursor) \in nomem) =>
       /\ attempts'[Head(cursor)] = attempts[Head(cursor)]
       /\ get_new_page_calls'[Head(cursor)]
            = get_new_page_calls[Head(cursor)]]_vars

\* C18: a move that leaves the destination with a page_count other than 2
\* is treated as an invariant violation: the source page does not reach
\* the moved list and no mapping is re-established onto that destination.
C18_RefcountChecked ==
  ~last_move.page_count_2 =>
    /\ last_move.newpage # "kept"
    /\ ~last_move.remapped

====
